---- MODULE Spec2Model ----
(***************************************************************************)
(* Model of the gpNvm non-volatile memory component (gpNvm.c / gpNvm.h).   *)
(*                                                                         *)
(* State: the four file-scope statics of gpNvm.c (the FILE handle, the     *)
(* data cache, the index table, the CRC table), the file that emulates the *)
(* non-volatile memory, and the memory that the build places right behind  *)
(* gpNvm_MemoryCache (reached by the unchecked record write of             *)
(* gpNvm_SetAttribute).  One action per API function.                      *)
(***************************************************************************)
EXTENDS Integers, Sequences, FiniteSets, TLC

(***************************************************************************)
(* Program constants.                                                      *)
(***************************************************************************)
GPNVM_MEMORY_SIZE == 2048

GPNVM_MEMORY_INDEX_TABLE_SIZE == 256

GPNVM_ATTRIBUTES_CRCS_SIZE == 256

\* sizeof(UInt16) * 256 + 256 = 768 bytes of tables, the rest is user data
GPNVM_USER_MEMORY_SIZE ==
    GPNVM_MEMORY_SIZE - (2 * GPNVM_MEMORY_INDEX_TABLE_SIZE + GPNVM_ATTRIBUTES_CRCS_SIZE)

\* the "attribute not stored" value of an index entry
NO_OFFSET == 65535

\* the two file offsets behind the index table
CRC_FILE_OFFSET == 2 * GPNVM_MEMORY_INDEX_TABLE_SIZE

DATA_FILE_OFFSET == 2 * GPNVM_MEMORY_INDEX_TABLE_SIZE + GPNVM_ATTRIBUTES_CRCS_SIZE

(***************************************************************************)
(* Bounds of the model.                                                    *)
(***************************************************************************)
\* attribute ids the modelled client uses: 0 .. NumIds-1
NumIds == 2

\* longest value the modelled client writes
MaxLen == 1

\* free bytes left in the arena of the previously written file
Room == 1

\* bit flips the environment may inject in one run
MaxFlips == 1

\* process starts in one behaviour
MaxRuns == 2

Ids == 0 .. (NumIds - 1)

AttrIds == 0 .. (GPNVM_MEMORY_INDEX_TABLE_SIZE - 1)

Byte == 0 .. 255

\* byte values the modelled client writes
ByteVals == {0, 255}

\* what a read of unmapped-or-foreign memory may deliver
WildBytes == {0, 255}

\* bits the environment may flip
FlipBits == 0 .. 7

RECURSIVE SeqsUpTo(_)
SeqsUpTo(n) ==
    IF n = 0 THEN {<< >>}
    ELSE LET S == SeqsUpTo(n - 1)
         IN  S \cup {Append(s, b) : s \in {t \in S : Len(t) = n - 1}, b \in ByteVals}

Values == SeqsUpTo(MaxLen)

\* bytes of foreign memory behind the cache that the model keeps track of
SlackLen == MaxLen + 1

(***************************************************************************)
(* CRC8 (polynomial 0x31, initial value 0xFF), bit by bit as in the code.  *)
(***************************************************************************)
Bit(x, k) == (x \div (2 ^ k)) % 2

\* the element of a set of one element: Pick({F(x) : x \in {e}}) is F(e), with
\* e computed once, before F
Pick(S) == CHOOSE x \in S : TRUE

RECURSIVE XorBits(_, _, _)
XorBits(a, b, k) ==
    IF k = 8 THEN 0
    ELSE ((Bit(a, k) + Bit(b, k)) % 2) * (2 ^ k) + XorBits(a, b, k + 1)

Xor8(a, b) == XorBits(a, b, 0)

\* one pass of the inner loop that shifts and never xors the polynomial in
CrcShiftOnly(crc) == (crc * 2) % 256

\* one pass of the inner loop: test the top bit, shift, xor the polynomial
CrcShift(crc) ==
    IF Bit(crc, 7) # 0 THEN Xor8((crc * 2) % 256, 49) ELSE (crc * 2) % 256

RECURSIVE CrcShifts(_, _)
CrcShifts(crc, j) ==
    IF j = 8 THEN crc ELSE Pick({CrcShifts(c, j + 1) : c \in {CrcShift(crc)}})

\* the eight inner passes for every value of crc after "crc ^= ptr[i]"
CrcTable == [c \in Byte |-> CrcShifts(c, 0)]

\* the outer loop for i = lo .. hi-1 (0-based), entered with the UInt8 crc; a
\* range of more than one iteration is run as its two halves, one after the other
RECURSIVE CrcLoop(_, _, _, _)
CrcLoop(crc, ptr, lo, hi) ==
    IF hi <= lo THEN crc
    ELSE IF hi - lo = 1 THEN CrcTable[Xor8(crc, ptr[lo + 1])]
    ELSE LET mid == (lo + hi) \div 2
         IN  Pick({CrcLoop(c, ptr, mid, hi) : c \in {CrcLoop(crc, ptr, lo, mid)}})

gpNvm_CalculateChecksum(ptr) == CrcLoop(255, ptr, 0, Len(ptr))

(***************************************************************************)
(* The process memory.  A memory image m is a record                       *)
(*   index, crc, cache : the three static tables                           *)
(*   slack             : foreign bytes directly behind gpNvm_MemoryCache   *)
(*   layout            : what the build placed behind gpNvm_MemoryCache    *)
(* and three marks of what the running call did                            *)
(*   oob               : it accessed gpNvm_MemoryCache behind its end      *)
(*   fdw               : it overwrote gpNvm_FileDescriptor                 *)
(*   wild              : it accessed memory the model does not keep        *)
(* The code indexes gpNvm_MemoryCache without a bound, so an address       *)
(* a >= GPNVM_USER_MEMORY_SIZE is an access to whatever follows the array: *)
(*   "index" : gpNvm_MemoryIndexTable, then gpNvm_AttributesCrcTable       *)
(*             (definition order: gcc without optimisation)                *)
(*   "fd"    : gpNvm_FileDescriptor (reverse order: gcc -O2)               *)
(*   "slack" : memory no object of the component uses                      *)
(* Index entries are stored little-endian.                                 *)
(***************************************************************************)
Layouts == {"index", "fd", "slack"}

\* address a, as an index into gpNvm_MemoryCache, is outside the kept memory
IsWild(m, a) ==
    /\ a >= GPNVM_USER_MEMORY_SIZE
    /\ CASE m.layout = "index" -> a - GPNVM_USER_MEMORY_SIZE >= DATA_FILE_OFFSET
         [] m.layout = "slack" -> a - GPNVM_USER_MEMORY_SIZE >= SlackLen
         [] OTHER -> TRUE

\* gpNvm_MemoryCache[a] as an rvalue; w is what wild memory delivers
Rd(m, a, w) ==
    LET k == a - GPNVM_USER_MEMORY_SIZE
    IN  IF a < GPNVM_USER_MEMORY_SIZE THEN m.cache[a]
        ELSE IF IsWild(m, a) THEN w
        ELSE IF m.layout = "slack" THEN m.slack[k]
        ELSE IF k < CRC_FILE_OFFSET
             THEN IF k % 2 = 0 THEN m.index[k \div 2] % 256
                  ELSE m.index[k \div 2] \div 256
        ELSE m.crc[k - CRC_FILE_OFFSET]

\* gpNvm_MemoryCache[a] = b
Wr(m, a, b) ==
    LET k == a - GPNVM_USER_MEMORY_SIZE
        e == m.index[k \div 2]
    IN  IF a < GPNVM_USER_MEMORY_SIZE THEN [m EXCEPT !.cache[a] = b]
        ELSE IF m.layout = "fd" THEN [m EXCEPT !.oob = TRUE, !.fdw = TRUE]
        ELSE IF IsWild(m, a) THEN [m EXCEPT !.oob = TRUE, !.wild = TRUE]
        ELSE IF m.layout = "slack" THEN [m EXCEPT !.oob = TRUE, !.slack[k] = b]
        ELSE IF k < CRC_FILE_OFFSET
             THEN IF k % 2 = 0
                  THEN [m EXCEPT !.oob = TRUE, !.index[k \div 2] = (e \div 256) * 256 + b]
                  ELSE [m EXCEPT !.oob = TRUE, !.index[k \div 2] = b * 256 + (e % 256)]
        ELSE [m EXCEPT !.oob = TRUE, !.crc[k - CRC_FILE_OFFSET] = b]

\* memcpy(&gpNvm_MemoryCache[a], v, n) for the bytes lo .. hi-1 (0-based) of v,
\* applied to image m; a range of more than one byte is copied as its two
\* halves, one after the other
RECURSIVE MemcpyIn(_, _, _, _, _)
MemcpyIn(m, a, v, lo, hi) ==
    IF hi <= lo THEN m
    ELSE IF hi - lo = 1 THEN Wr(m, a + lo, v[lo + 1])
    ELSE LET mid == (lo + hi) \div 2
         IN  Pick({MemcpyIn(n, a, v, mid, hi) : n \in {MemcpyIn(m, a, v, lo, mid)}})

\* the n bytes at &gpNvm_MemoryCache[a]
ReadBytes(m, a, n, w) == [i \in 1 .. n |-> Rd(m, a + i - 1, w)]

\* image m after the call has read gpNvm_MemoryCache[a .. a+n-1]
MarkRead(m, a, n) ==
    IF n <= 0 THEN m
    ELSE [m EXCEPT !.oob = @ \/ (a + n > GPNVM_USER_MEMORY_SIZE),
                   !.wild = @ \/ IsWild(m, a + n - 1)]

\* a memset of the index table with 0 for 0xFF
ClearedIndex == [i \in AttrIds |-> 0]

\* memset(table, 0xFF, size) on the three tables (gpNvm_Init, empty file)
ErasedIndex == [i \in AttrIds |-> NO_OFFSET]

ErasedCrc == [i \in AttrIds |-> 255]

ErasedCache == [a \in 0 .. (GPNVM_USER_MEMORY_SIZE - 1) |-> 255]

\* statics of a freshly started process are zero-initialised
ZeroIndex == [i \in AttrIds |-> 0]

ZeroCrc == [i \in AttrIds |-> 0]

ZeroCache == [a \in 0 .. (GPNVM_USER_MEMORY_SIZE - 1) |-> 0]

ZeroSlack == [k \in 0 .. (SlackLen - 1) |-> 0]

(***************************************************************************)
(* The file GPNVM_FILE_NAME: its size and its three sections at offsets    *)
(* 0, 512 and 768.  Every fwrite of the component writes a whole section.  *)
(***************************************************************************)
EmptyFile == [size |-> 0, index |-> ErasedIndex, crc |-> ErasedCrc, data |-> ErasedCache]

\* a writer that leaves out the third fseek/fwrite pair, the one of the arena
WriteIndexAndCrc(m) ==
    [size |-> GPNVM_MEMORY_SIZE, index |-> m.index, crc |-> m.crc, data |-> ErasedCache]

\* the three fseek/fwrite pairs that every writer of the file performs
WriteTables(m) ==
    [size |-> GPNVM_MEMORY_SIZE, index |-> m.index, crc |-> m.crc, data |-> m.cache]

(***************************************************************************)
(* Result codes (gpNvm.h).  "CRASH" is not a return value: the process was *)
(* terminated inside the call.                                             *)
(***************************************************************************)
GPNVM_OK == "GPNVM_OK"

GPNVM_ERROR_OPENING_FILE == "GPNVM_ERROR_OPENING_FILE"

GPNVM_ERROR_ALREADY_INITIALIZED == "GPNVM_ERROR_ALREADY_INITIALIZED"

GPNVM_ERROR_NOT_INITIALIZED == "GPNVM_ERROR_NOT_INITIALIZED"

GPNVM_ERROR_INVALID_PARAMETERS == "GPNVM_ERROR_INVALID_PARAMETERS"

GPNVM_ERROR_INVALID_ATTRIBUTE_ID == "GPNVM_ERROR_INVALID_ATTRIBUTE_ID"

GPNVM_ERROR_CORRUPTED_ATTRIBUTE == "GPNVM_ERROR_CORRUPTED_ATTRIBUTE"

GPNVM_ERROR_MEMORY_FULL == "GPNVM_ERROR_MEMORY_FULL"

CRASH == "CRASH"

\* *pLength and pValue when the call did not write them
NoLength == -1

NoValue == << >>

(***************************************************************************)
(* gpNvm_GetAttribute on memory image m with handle state fd.              *)
(* ptrs: pLength and pValue are both non-NULL.                             *)
(* Result: return value, *pLength, pValue[], and the marked image.         *)
(***************************************************************************)
GetReturn(res, len, val, m) == [res |-> res, len |-> len, val |-> val, m |-> m]

\* the comparison of the recomputed crc with the stored one
CrcMatches(value, attributeCrc) == gpNvm_CalculateChecksum(value) = attributeCrc

GetAttribute(m, fd, attrId, ptrs, w) ==
    LET attributeOffset == m.index[attrId]
        attributeCrc == m.crc[attrId]
        attributeLength == Rd(m, attributeOffset, w)
        value == ReadBytes(m, attributeOffset + 1, attributeLength, w)
        m1 == MarkRead(m, attributeOffset, 1 + attributeLength)
    IN  IF fd = "NULL" THEN GetReturn(GPNVM_ERROR_NOT_INITIALIZED, NoLength, NoValue, m)
        ELSE IF ~ptrs THEN GetReturn(GPNVM_ERROR_INVALID_PARAMETERS, NoLength, NoValue, m)
        ELSE IF attributeOffset = NO_OFFSET
             THEN GetReturn(GPNVM_ERROR_INVALID_ATTRIBUTE_ID, NoLength, NoValue, m)
        ELSE IF ~CrcMatches(value, attributeCrc)
             THEN GetReturn(GPNVM_ERROR_CORRUPTED_ATTRIBUTE, NoLength, NoValue, m1)
        ELSE GetReturn(GPNVM_OK, attributeLength, value, m1)

(***************************************************************************)
(* gpNvm_SetAttribute on memory image m: the new image, the return value   *)
(* and whether the call goes on to write the file.                         *)
(***************************************************************************)
SetReturn(m, res, io) == [m |-> m, res |-> res, io |-> io]

\* the for loop of the insert path for cpt = lo .. hi-1, entered with the
\* UInt16 attributeOffset; a range of more than one iteration is run as its
\* two halves, one after the other
RECURSIVE OffsetScan(_, _, _, _, _)
OffsetScan(m, lo, hi, attributeOffset, w) ==
    IF hi <= lo THEN attributeOffset
    ELSE IF hi - lo = 1
         THEN IF m.index[lo] # NO_OFFSET
              THEN (attributeOffset + Rd(m, m.index[lo], w) + 1) % 65536
              ELSE attributeOffset
    ELSE LET mid == (lo + hi) \div 2
         IN  Pick({OffsetScan(m, mid, hi, o, w) :
                       o \in {OffsetScan(m, lo, mid, attributeOffset, w)}})

\* image m after the scan has read the length byte of every stored attribute
MarkScan(m) ==
    LET far == {cpt \in AttrIds : m.index[cpt] # NO_OFFSET
                                  /\ m.index[cpt] >= GPNVM_USER_MEMORY_SIZE}
    IN  IF far = {} THEN m
        ELSE [m EXCEPT !.oob = TRUE,
                       !.wild = @ \/ \E cpt \in far : IsWild(m, m.index[cpt])]

\* "Check if we have spare place in non-volatile memory"
MemoryFull(attributeOffset, length) == attributeOffset >= GPNVM_USER_MEMORY_SIZE

\* "Invalid attribute length": the check of the update path
LengthMismatch(length, attributeLength) == length # attributeLength

\* the update path, attribute already in the index table
SetUpdate(m, attrId, pValue, w) ==
    LET attributeOffset == m.index[attrId]
        length == Len(pValue)
        attributeLength == Rd(m, attributeOffset, w)
        m0 == MarkRead(m, attributeOffset, 1)
        m1 == MarkRead(m, attributeOffset, 1 + length)
        m2 == MemcpyIn(m1, attributeOffset + 1, pValue, 0, length)
        m3 == [m2 EXCEPT !.crc[attrId] = gpNvm_CalculateChecksum(pValue)]
    IN  IF LengthMismatch(length, attributeLength)
        THEN SetReturn(m0, GPNVM_ERROR_INVALID_PARAMETERS, FALSE)
        ELSE IF pValue = ReadBytes(m, attributeOffset + 1, length, w)
             THEN SetReturn(m1, GPNVM_OK, FALSE)
        ELSE SetReturn(m3, GPNVM_OK, TRUE)

\* an insert path that leaves the crc table entry as it was
StageNoCrc(m, attrId, pValue) == m

\* the crc table entry of the insert path, written before the offset is known
StageCrc(m, attrId, pValue) == [m EXCEPT !.crc[attrId] = gpNvm_CalculateChecksum(pValue)]

\* the insert path from the capacity check on: m1 is the image after the scan,
\* attributeOffset what the scan computed
InsertAt(m1, attrId, pValue, attributeOffset) ==
    LET length == Len(pValue)
        m2 == [m1 EXCEPT !.index[attrId] = attributeOffset]
        m3 == Wr(m2, attributeOffset, length)
        m4 == MemcpyIn(m3, attributeOffset + 1, pValue, 0, length)
    IN  IF MemoryFull(attributeOffset, length)
        THEN SetReturn(m1, GPNVM_ERROR_MEMORY_FULL, FALSE)
        ELSE SetReturn(m4, GPNVM_OK, TRUE)

\* the insert path from the scan on: m1 is the image with the crc staged
InsertScan(m1, attrId, pValue, w) ==
    Pick({InsertAt(MarkScan(m1), attrId, pValue, attributeOffset) :
              attributeOffset \in {OffsetScan(m1, 0, GPNVM_MEMORY_INDEX_TABLE_SIZE, 0, w)}})

\* the insert path, attribute not in the index table
SetInsert(m, attrId, pValue, w) ==
    Pick({InsertScan(m1, attrId, pValue, w) : m1 \in {StageCrc(m, attrId, pValue)}})

\* ptr: pValue is non-NULL
SetAttribute(m, fd, attrId, ptr, pValue, w) ==
    IF fd = "NULL" THEN SetReturn(m, GPNVM_ERROR_NOT_INITIALIZED, FALSE)
    ELSE IF ~ptr THEN SetReturn(m, GPNVM_ERROR_INVALID_PARAMETERS, FALSE)
    ELSE IF m.index[attrId] # NO_OFFSET THEN SetUpdate(m, attrId, pValue, w)
    ELSE SetInsert(m, attrId, pValue, w)

(***************************************************************************)
(* A client that fills the arena: on the empty store it sets the ids       *)
(* 251 .. 255, in this order, to values that leave Room bytes of the arena *)
(* free.                                                                   *)
(***************************************************************************)
FirstPrefillId == GPNVM_MEMORY_INDEX_TABLE_SIZE - 5

PrefillIds == FirstPrefillId .. (GPNVM_MEMORY_INDEX_TABLE_SIZE - 1)

PrefillLen(id) == IF id = GPNVM_MEMORY_INDEX_TABLE_SIZE - 1 THEN 255 - Room ELSE 255

PrefillValue(id) == [i \in 1 .. PrefillLen(id) |-> (id + i) % 256]

\* the five calls, from image m on
RECURSIVE PrefillFrom(_, _)
PrefillFrom(m, id) ==
    IF id = GPNVM_MEMORY_INDEX_TABLE_SIZE THEN m
    ELSE Pick({PrefillFrom(n, id + 1) :
                   n \in {SetAttribute(m, "open", id, TRUE, PrefillValue(id), 0).m}})

(***************************************************************************)
(* State.                                                                  *)
(***************************************************************************)
VARIABLES
    gpNvm_FileDescriptor,      \* "NULL", "open", or "closed": the pointer
                               \* still holds the stream that fclose released
    gpNvm_MemoryCache,         \* UInt8[GPNVM_USER_MEMORY_SIZE]
    gpNvm_MemoryIndexTable,    \* UInt16[256]
    gpNvm_AttributesCrcTable,  \* UInt8[256]
    slack,                     \* foreign bytes behind gpNvm_MemoryCache
    layout,                    \* what this build placed behind gpNvm_MemoryCache;
                               \* "unknown" until a call gets there
    file,                      \* the file GPNVM_FILE_NAME
    crashed,                   \* the process was terminated inside a call
    last,                      \* the last call: arguments, return value, outputs
    everSet,                   \* ids for which a gpNvm_SetAttribute returned GPNVM_OK
    flips,                     \* per id: bits flipped in its value since it was written
    faults,                    \* bits flipped in this run
    runs,                      \* process starts so far
    reopen,                    \* how far the last calls are into the sequence
                               \* Set(id, val); Uninit; Init
    calls                      \* gpNvm_SetAttribute calls of two threads of the
                               \* client that no lock keeps apart: per thread the
                               \* position in the function and its locals

vars == <<gpNvm_FileDescriptor, gpNvm_MemoryCache, gpNvm_MemoryIndexTable,
          gpNvm_AttributesCrcTable, slack, layout, file, crashed, last, everSet, flips,
          faults, runs, reopen, calls>>

tables == <<gpNvm_MemoryCache, gpNvm_MemoryIndexTable, gpNvm_AttributesCrcTable>>

\* the memory image at the start of a call, in a build with layout lay
Mem(lay) ==
    [index |-> gpNvm_MemoryIndexTable, crc |-> gpNvm_AttributesCrcTable,
     cache |-> gpNvm_MemoryCache, slack |-> slack, layout |-> lay,
     oob |-> FALSE, fdw |-> FALSE, wild |-> FALSE]

\* the layout a call is first run with; it matters only once the call is out of bounds
FirstLayout == IF layout = "unknown" THEN "slack" ELSE layout

\* the builds that are possible for a call that is (not) out of bounds
LayoutChoices(oob) == IF layout = "unknown" /\ oob THEN Layouts ELSE {FirstLayout}

\* what wild memory delivers, for a call that does (not) read it
FirstWild == 0

WildChoices(wild) == IF wild THEN WildBytes ELSE {FirstWild}

M == Mem(FirstLayout)

NoId == -1

Call(op, id, ptr, val, res, len, out) ==
    [op |-> op, id |-> id, ptr |-> ptr, val |-> val, res |-> res, len |-> len, out |-> out]

\* no sequence of calls that is followed has begun: neither Set(id, val);
\* Uninit; Init (stages 1, 2, 3) nor Get(id) returning
\* GPNVM_ERROR_CORRUPTED_ATTRIBUTE (stage 4) and once more (stage 5)
Idle == [stage |-> 0, id |-> NoId, val |-> NoValue]

\* the sequence after the call c
Track(c) ==
    IF c.op = "Set" /\ c.res = GPNVM_OK /\ gpNvm_FileDescriptor = "open"
    THEN [stage |-> 1, id |-> c.id, val |-> c.val]
    ELSE IF c.op = "Uninit" /\ c.res = GPNVM_OK /\ reopen.stage = 1
         THEN [reopen EXCEPT !.stage = 2]
    ELSE IF c.op = "Init" /\ c.res = GPNVM_OK /\ reopen.stage = 2
         THEN [reopen EXCEPT !.stage = 3]
    ELSE IF c.op = "Get" /\ c.res = GPNVM_ERROR_CORRUPTED_ATTRIBUTE
         THEN IF reopen.stage \in {4, 5} /\ reopen.id = c.id
              THEN [stage |-> 5, id |-> c.id, val |-> NoValue]
              ELSE [stage |-> 4, id |-> c.id, val |-> NoValue]
    ELSE Idle

\* the two threads of the client
Threads == {1, 2}

\* a thread that has not called: position, arguments attrId and pValue, the
\* local attributeOffset, the return value, and whether the call found the id
\* not stored and took the insert path
NoCall == [pc |-> "idle", id |-> NoId, val |-> NoValue, off |-> 0, res |-> GPNVM_OK,
           insert |-> FALSE]

\* no thread has called; overlap: a thread has taken a step of its call while
\* the call of the other was under way
NoCalls == [th |-> [t \in Threads |-> NoCall], overlap |-> FALSE]

\* the call returns (or ends) as c; it is made by the one thread of a client
\* that makes one call at a time
Returns(c) ==
    /\ last' = c
    /\ reopen' = Track(c)
    /\ calls' = calls

\* the first process start: zeroed statics, no file yet
Init ==
    /\ gpNvm_FileDescriptor = "NULL"
    /\ gpNvm_MemoryCache = ZeroCache
    /\ gpNvm_MemoryIndexTable = ZeroIndex
    /\ gpNvm_AttributesCrcTable = ZeroCrc
    /\ slack = ZeroSlack
    /\ layout = "unknown"
    /\ file = EmptyFile
    /\ crashed = FALSE
    /\ last = Call("start", NoId, TRUE, NoValue, GPNVM_OK, NoLength, NoValue)
    /\ everSet = {}
    /\ flips = [id \in Ids |-> 0]
    /\ faults = 0
    /\ runs = 1
    /\ reopen = Idle
    /\ calls = NoCalls

\* the memory of the process becomes image m
StoreMem(m) ==
    /\ gpNvm_MemoryCache' = m.cache
    /\ gpNvm_MemoryIndexTable' = m.index
    /\ gpNvm_AttributesCrcTable' = m.crc
    /\ slack' = m.slack
    /\ layout' = IF m.oob THEN m.layout ELSE layout

\* the call did not return: the process is gone
Crash(op, id, ptr, val) ==
    /\ crashed' = TRUE
    /\ Returns(Call(op, id, ptr, val, CRASH, NoLength, NoValue))
    /\ UNCHANGED <<gpNvm_FileDescriptor, tables, slack, layout, file, everSet, flips, faults, runs>>

(***************************************************************************)
(* gpNvm_Init.                                                             *)
(***************************************************************************)
\* a gpNvm_Init without the check of the handle: it loads the tables again
InitReloads ==
    /\ ~crashed
    /\ gpNvm_FileDescriptor # "NULL"
    /\ StoreMem([M EXCEPT !.index = file.index, !.crc = file.crc, !.cache = file.data])
    /\ Returns(Call("Init", NoId, TRUE, NoValue, GPNVM_OK, NoLength, NoValue))
    /\ UNCHANGED <<gpNvm_FileDescriptor, file, crashed, everSet, flips, faults, runs>>

InitAlready ==
    /\ ~crashed
    /\ gpNvm_FileDescriptor # "NULL"
    /\ Returns(Call("Init", NoId, TRUE, NoValue, GPNVM_ERROR_ALREADY_INITIALIZED,
                    NoLength, NoValue))
    /\ UNCHANGED <<gpNvm_FileDescriptor, tables, slack, layout, file, crashed, everSet, flips, faults, runs>>

\* neither fopen delivered a stream
InitNoFile ==
    /\ ~crashed
    /\ gpNvm_FileDescriptor = "NULL"
    /\ Returns(Call("Init", NoId, TRUE, NoValue, GPNVM_ERROR_OPENING_FILE, NoLength, NoValue))
    /\ UNCHANGED <<gpNvm_FileDescriptor, tables, slack, layout, file, crashed, everSet, flips, faults, runs>>

InitEmpty ==
    /\ ~crashed
    /\ gpNvm_FileDescriptor = "NULL"
    /\ file.size = 0
    /\ gpNvm_FileDescriptor' = "open"
    /\ StoreMem([M EXCEPT !.index = ErasedIndex, !.crc = ErasedCrc, !.cache = ErasedCache])
    /\ file' = WriteTables([index |-> ErasedIndex, crc |-> ErasedCrc, cache |-> ErasedCache])
    /\ Returns(Call("Init", NoId, TRUE, NoValue, GPNVM_OK, NoLength, NoValue))
    /\ UNCHANGED <<crashed, everSet, flips, faults, runs>>

\* a gpNvm_Init that initialises the tables and the file whatever the file holds
InitLoadErases ==
    /\ ~crashed
    /\ gpNvm_FileDescriptor = "NULL"
    /\ file.size # 0
    /\ gpNvm_FileDescriptor' = "open"
    /\ StoreMem([M EXCEPT !.index = ErasedIndex, !.crc = ErasedCrc, !.cache = ErasedCache])
    /\ file' = WriteTables([index |-> ErasedIndex, crc |-> ErasedCrc, cache |-> ErasedCache])
    /\ Returns(Call("Init", NoId, TRUE, NoValue, GPNVM_OK, NoLength, NoValue))
    /\ UNCHANGED <<crashed, everSet, flips, faults, runs>>

InitLoad ==
    /\ ~crashed
    /\ gpNvm_FileDescriptor = "NULL"
    /\ file.size # 0
    /\ gpNvm_FileDescriptor' = "open"
    /\ StoreMem([M EXCEPT !.index = file.index, !.crc = file.crc, !.cache = file.data])
    /\ Returns(Call("Init", NoId, TRUE, NoValue, GPNVM_OK, NoLength, NoValue))
    /\ UNCHANGED <<file, crashed, everSet, flips, faults, runs>>

gpNvm_Init == InitAlready \/ InitNoFile \/ InitEmpty \/ InitLoad

(***************************************************************************)
(* gpNvm_Uninit.  The handle variable is not reset after fclose, so a      *)
(* later call works on a released stream: it returns without effect on     *)
(* the file, or the process is terminated.                                 *)
(***************************************************************************)
UninitNull ==
    /\ ~crashed
    /\ gpNvm_FileDescriptor = "NULL"
    /\ Returns(Call("Uninit", NoId, TRUE, NoValue, GPNVM_ERROR_NOT_INITIALIZED,
                    NoLength, NoValue))
    /\ UNCHANGED <<gpNvm_FileDescriptor, tables, slack, layout, file, crashed, everSet, flips, faults, runs>>

\* what gpNvm_FileDescriptor holds when gpNvm_Uninit returns GPNVM_OK
AfterFclose == "closed"

UninitOpen ==
    /\ ~crashed
    /\ gpNvm_FileDescriptor = "open"
    /\ file' = WriteTables(M)
    /\ gpNvm_FileDescriptor' = AfterFclose
    /\ Returns(Call("Uninit", NoId, TRUE, NoValue, GPNVM_OK, NoLength, NoValue))
    /\ UNCHANGED <<tables, slack, layout, crashed, everSet, flips, faults, runs>>

UninitReleased ==
    /\ ~crashed
    /\ gpNvm_FileDescriptor = "closed"
    /\ \/ /\ Returns(Call("Uninit", NoId, TRUE, NoValue, GPNVM_OK, NoLength, NoValue))
          /\ UNCHANGED <<gpNvm_FileDescriptor, tables, slack, layout, file, crashed,
                         everSet, flips, faults, runs>>
       \/ Crash("Uninit", NoId, TRUE, NoValue)

gpNvm_Uninit == UninitNull \/ UninitOpen \/ UninitReleased

(***************************************************************************)
(* gpNvm_GetAttribute.                                                     *)
(***************************************************************************)
\* a gpNvm_GetAttribute that discards the attribute it finds corrupted
GetDiscards(attrId, ptrs, r) ==
    /\ ~crashed
    /\ Returns(Call("Get", attrId, ptrs, NoValue, r.res, r.len, r.val))
    /\ layout' = IF r.m.oob THEN r.m.layout ELSE layout
    /\ gpNvm_MemoryIndexTable' =
          IF r.res = GPNVM_ERROR_CORRUPTED_ATTRIBUTE
          THEN [gpNvm_MemoryIndexTable EXCEPT ![attrId] = NO_OFFSET]
          ELSE gpNvm_MemoryIndexTable
    /\ UNCHANGED <<gpNvm_FileDescriptor, gpNvm_MemoryCache, gpNvm_AttributesCrcTable, slack,
                   file, crashed, everSet, flips, faults, runs>>

GetStep(attrId, ptrs, r) ==
    \/ /\ ~crashed
       /\ Returns(Call("Get", attrId, ptrs, NoValue, r.res, r.len, r.val))
       /\ layout' = IF r.m.oob THEN r.m.layout ELSE layout
       /\ UNCHANGED <<gpNvm_FileDescriptor, tables, slack, file, crashed, everSet, flips, faults, runs>>
    \/ /\ ~crashed
       /\ r.m.wild
       /\ Crash("Get", attrId, ptrs, NoValue)

\* the call is run with the first layout and wild byte; what it does decides
\* which other builds and bytes are to be told apart
gpNvm_GetAttribute ==
    \E attrId \in Ids, ptrs \in BOOLEAN :
    \E r0 \in {GetAttribute(M, gpNvm_FileDescriptor, attrId, ptrs, FirstWild)} :
    \E lay \in LayoutChoices(r0.m.oob) :
    \E r1 \in {IF lay = FirstLayout THEN r0
                ELSE GetAttribute(Mem(lay), gpNvm_FileDescriptor, attrId, ptrs, FirstWild)} :
    \E w \in WildChoices(r1.m.wild) :
    \E r \in {IF w = FirstWild THEN r1
               ELSE GetAttribute(Mem(lay), gpNvm_FileDescriptor, attrId, ptrs, w)} :
        GetStep(attrId, ptrs, r)

(***************************************************************************)
(* gpNvm_SetAttribute.  The file is written through the stream; a stream   *)
(* pointer that was overwritten ends the process in fseek, a released      *)
(* stream takes no data or ends the process.                               *)
(***************************************************************************)
SetStep(attrId, ptr, val, r) ==
    \/ /\ ~crashed
       /\ ~(r.io /\ r.m.fdw)
       /\ StoreMem(r.m)
       /\ file' = IF r.io /\ gpNvm_FileDescriptor = "open" THEN WriteTables(r.m) ELSE file
       /\ Returns(Call("Set", attrId, ptr, val, r.res, NoLength, NoValue))
       /\ everSet' = IF r.res = GPNVM_OK THEN everSet \cup {attrId} ELSE everSet
       /\ flips' = IF r.io THEN [flips EXCEPT ![attrId] = 0] ELSE flips
       /\ UNCHANGED <<gpNvm_FileDescriptor, crashed, faults, runs>>
    \/ /\ ~crashed
       /\ r.m.wild \/ (r.io /\ (r.m.fdw \/ gpNvm_FileDescriptor = "closed"))
       /\ Crash("Set", attrId, ptr, val)

gpNvm_SetAttribute ==
    \E attrId \in Ids, ptr \in BOOLEAN :
    \E pValue \in IF ptr THEN Values ELSE {NoValue} :
    \E r0 \in {SetAttribute(M, gpNvm_FileDescriptor, attrId, ptr, pValue, FirstWild)} :
    \E lay \in LayoutChoices(r0.m.oob) :
    \E r1 \in {IF lay = FirstLayout THEN r0
                ELSE SetAttribute(Mem(lay), gpNvm_FileDescriptor, attrId, ptr, pValue,
                                  FirstWild)} :
    \E w \in WildChoices(r1.m.wild) :
    \E r \in {IF w = FirstWild THEN r1
               ELSE SetAttribute(Mem(lay), gpNvm_FileDescriptor, attrId, ptr, pValue, w)} :
        SetStep(attrId, ptr, pValue, r)

(***************************************************************************)
(* The client fills the arena: five gpNvm_SetAttribute calls on the empty  *)
(* store, taken as one step.  Every one of them inserts, returns GPNVM_OK  *)
(* and writes the file.                                                    *)
(***************************************************************************)
FillArena ==
    LET id == GPNVM_MEMORY_INDEX_TABLE_SIZE - 1
    IN  /\ ~crashed
        /\ gpNvm_FileDescriptor = "open"
        /\ \A i \in AttrIds : gpNvm_MemoryIndexTable[i] = NO_OFFSET
        /\ \E m \in {PrefillFrom(M, FirstPrefillId)} :
              /\ StoreMem(m)
              /\ file' = WriteTables(m)
        /\ Returns(Call("Set", id, TRUE, PrefillValue(id), GPNVM_OK, NoLength, NoValue))
        /\ everSet' = everSet \cup PrefillIds
        /\ UNCHANGED <<gpNvm_FileDescriptor, crashed, flips, faults, runs>>

(***************************************************************************)
(* The process ends (it returned from main, or it was terminated) and the  *)
(* program is started again: the statics are zero, the file is as it was   *)
(* left.  The build, and so the layout, is the same.                       *)
(***************************************************************************)
Restart ==
    /\ runs < MaxRuns
    /\ runs' = runs + 1
    /\ gpNvm_FileDescriptor' = "NULL"
    /\ gpNvm_MemoryCache' = ZeroCache
    /\ gpNvm_MemoryIndexTable' = ZeroIndex
    /\ gpNvm_AttributesCrcTable' = ZeroCrc
    /\ slack' = ZeroSlack
    /\ crashed' = FALSE
    /\ Returns(Call("start", NoId, TRUE, NoValue, GPNVM_OK, NoLength, NoValue))
    /\ UNCHANGED <<layout, file, everSet, flips, faults>>

(***************************************************************************)
(* Storage corruption: one bit of one value byte of a stored attribute     *)
(* changes in the arena.  It is injected into an image that no access      *)
(* behind the end of the arena has touched.                                *)
(***************************************************************************)
FlipBit(b, k) == IF Bit(b, k) = 1 THEN b - 2 ^ k ELSE b + 2 ^ k

Corrupt ==
    \E attrId \in Ids, k \in FlipBits :
        LET off == gpNvm_MemoryIndexTable[attrId]
        IN  /\ ~crashed
            /\ gpNvm_FileDescriptor = "open"
            /\ layout = "unknown"
            /\ faults < MaxFlips
            /\ off < GPNVM_USER_MEMORY_SIZE
            /\ \E a \in (off + 1) .. (off + gpNvm_MemoryCache[off]) :
                  /\ a < GPNVM_USER_MEMORY_SIZE
                  /\ gpNvm_MemoryCache' =
                        [gpNvm_MemoryCache EXCEPT ![a] = FlipBit(gpNvm_MemoryCache[a], k)]
            /\ flips' = [flips EXCEPT ![attrId] = @ + 1]
            /\ faults' = faults + 1
            /\ Returns(Call("Corrupt", attrId, TRUE, NoValue, GPNVM_OK, NoLength, NoValue))
            /\ UNCHANGED <<gpNvm_FileDescriptor, gpNvm_MemoryIndexTable,
                           gpNvm_AttributesCrcTable, slack, layout, file, crashed, everSet, runs>>

(***************************************************************************)
(* Specifications: the component and its client; the component, once      *)
(* initialised, with storage corruption.                                   *)
(***************************************************************************)
Next ==
    \/ gpNvm_Init
    \/ gpNvm_Uninit
    \/ gpNvm_GetAttribute
    \/ gpNvm_SetAttribute
    \/ FillArena
    \/ Restart

Spec == Init /\ [][Next]_vars

NextFaults ==
    \/ gpNvm_Init
    \/ gpNvm_GetAttribute
    \/ gpNvm_SetAttribute
    \/ FillArena
    \/ Restart
    \/ Corrupt

SpecFaults == Init /\ [][NextFaults]_vars

(***************************************************************************)
(* gpNvm_SetAttribute called from two threads.  The component takes no     *)
(* lock, so the statements of the two calls interleave; a step below is    *)
(* one statement (or one loop, or the block of file writes) of the         *)
(* function, run by thread t on the statics as they are at that moment.    *)
(* Each thread makes one call, with a non-NULL pValue.                     *)
(***************************************************************************)
Th(t) == calls.th[t]

InFlight(t) == Th(t).pc \notin {"idle", "done"}

Other(t) == CHOOSE u \in Threads : u # t

\* thread t moves on to c
Step(t, c) ==
    calls' = [th |-> [calls.th EXCEPT ![t] = c],
              overlap |-> calls.overlap \/ InFlight(Other(t))]

RaceFrame ==
    UNCHANGED <<gpNvm_FileDescriptor, crashed, last, everSet, flips, faults, runs, reopen>>

MemUnchanged == UNCHANGED <<tables, slack, layout>>

\* entry: the check of the handle and the read of the index table entry
RaceCall(t) ==
    /\ ~crashed
    /\ Th(t).pc = "idle"
    /\ \E attrId \in Ids, pValue \in Values :
          LET attributeOffset == gpNvm_MemoryIndexTable[attrId]
              c == [NoCall EXCEPT !.id = attrId, !.val = pValue]
          IN  Step(t, IF gpNvm_FileDescriptor = "NULL"
                      THEN [c EXCEPT !.pc = "done", !.res = GPNVM_ERROR_NOT_INITIALIZED]
                      ELSE [c EXCEPT !.off = attributeOffset,
                                     !.insert = (attributeOffset = NO_OFFSET),
                                     !.pc = IF attributeOffset # NO_OFFSET
                                            THEN "length" ELSE "crc"])
    /\ MemUnchanged
    /\ UNCHANGED file
    /\ RaceFrame

\* update path: the read of the stored length and its check
RaceUpdateLength(t) ==
    /\ ~crashed
    /\ Th(t).pc = "length"
    /\ LET attributeLength == Rd(M, Th(t).off, FirstWild)
       IN  Step(t, IF LengthMismatch(Len(Th(t).val), attributeLength)
                   THEN [Th(t) EXCEPT !.pc = "done", !.res = GPNVM_ERROR_INVALID_PARAMETERS]
                   ELSE [Th(t) EXCEPT !.pc = "memcmp"])
    /\ MemUnchanged
    /\ UNCHANGED file
    /\ RaceFrame

\* update path: the memcmp with the stored value
RaceUpdateCompare(t) ==
    /\ ~crashed
    /\ Th(t).pc = "memcmp"
    /\ Step(t, IF Th(t).val = ReadBytes(M, Th(t).off + 1, Len(Th(t).val), FirstWild)
                THEN [Th(t) EXCEPT !.pc = "done", !.res = GPNVM_OK]
                ELSE [Th(t) EXCEPT !.pc = "memcpy"])
    /\ MemUnchanged
    /\ UNCHANGED file
    /\ RaceFrame

\* update path: the memcpy of the new value
RaceUpdateCopy(t) ==
    /\ ~crashed
    /\ Th(t).pc = "memcpy"
    /\ StoreMem(MemcpyIn(M, Th(t).off + 1, Th(t).val, 0, Len(Th(t).val)))
    /\ Step(t, [Th(t) EXCEPT !.pc = "newcrc"])
    /\ UNCHANGED file
    /\ RaceFrame

\* update path: the new crc table entry
RaceUpdateCrc(t) ==
    /\ ~crashed
    /\ Th(t).pc = "newcrc"
    /\ StoreMem([M EXCEPT !.crc[Th(t).id] = gpNvm_CalculateChecksum(Th(t).val)])
    /\ Step(t, [Th(t) EXCEPT !.pc = "rewrite"])
    /\ UNCHANGED file
    /\ RaceFrame

\* update path: the three sections written to the file, and the return
RaceUpdateFlush(t) ==
    /\ ~crashed
    /\ Th(t).pc = "rewrite"
    /\ file' = WriteTables(M)
    /\ Step(t, [Th(t) EXCEPT !.pc = "done", !.res = GPNVM_OK])
    /\ MemUnchanged
    /\ RaceFrame

\* insert path: the crc table entry
RaceStageCrc(t) ==
    /\ ~crashed
    /\ Th(t).pc = "crc"
    /\ StoreMem(StageCrc(M, Th(t).id, Th(t).val))
    /\ Step(t, [Th(t) EXCEPT !.pc = "scan"])
    /\ UNCHANGED file
    /\ RaceFrame

\* insert path: the loop that sums the stored records
RaceScan(t) ==
    /\ ~crashed
    /\ Th(t).pc = "scan"
    /\ StoreMem(MarkScan(M))
    /\ Step(t, [Th(t) EXCEPT !.pc = "check",
                             !.off = OffsetScan(M, 0, GPNVM_MEMORY_INDEX_TABLE_SIZE, 0, FirstWild)])
    /\ UNCHANGED file
    /\ RaceFrame

\* insert path: the capacity check
RaceCheck(t) ==
    /\ ~crashed
    /\ Th(t).pc = "check"
    /\ Step(t, IF MemoryFull(Th(t).off, Len(Th(t).val))
                THEN [Th(t) EXCEPT !.pc = "done", !.res = GPNVM_ERROR_MEMORY_FULL]
                ELSE [Th(t) EXCEPT !.pc = "index"])
    /\ MemUnchanged
    /\ UNCHANGED file
    /\ RaceFrame

\* insert path: the index table entry
RaceIndex(t) ==
    /\ ~crashed
    /\ Th(t).pc = "index"
    /\ StoreMem([M EXCEPT !.index[Th(t).id] = Th(t).off])
    /\ Step(t, [Th(t) EXCEPT !.pc = "lengthbyte"])
    /\ UNCHANGED file
    /\ RaceFrame

\* insert path: the length byte of the record
RaceLength(t) ==
    /\ ~crashed
    /\ Th(t).pc = "lengthbyte"
    /\ StoreMem(Wr(M, Th(t).off, Len(Th(t).val)))
    /\ Step(t, [Th(t) EXCEPT !.pc = "value"])
    /\ UNCHANGED file
    /\ RaceFrame

\* insert path: the memcpy of the value
RaceCopy(t) ==
    /\ ~crashed
    /\ Th(t).pc = "value"
    /\ StoreMem(MemcpyIn(M, Th(t).off + 1, Th(t).val, 0, Len(Th(t).val)))
    /\ Step(t, [Th(t) EXCEPT !.pc = "write"])
    /\ UNCHANGED file
    /\ RaceFrame

\* insert path: the three sections written to the file, and the return
RaceFlush(t) ==
    /\ ~crashed
    /\ Th(t).pc = "write"
    /\ file' = WriteTables(M)
    /\ Step(t, [Th(t) EXCEPT !.pc = "done", !.res = GPNVM_OK])
    /\ MemUnchanged
    /\ RaceFrame

\* the store is opened on the empty file by the one thread there is so far
RaceInit ==
    /\ \A t \in Threads : Th(t).pc = "idle"
    /\ InitEmpty

NextRace ==
    \/ RaceInit
    \/ \E t \in Threads : RaceCall(t)
    \/ \E t \in Threads : RaceUpdateLength(t)
    \/ \E t \in Threads : RaceUpdateCompare(t)
    \/ \E t \in Threads : RaceUpdateCopy(t)
    \/ \E t \in Threads : RaceUpdateCrc(t)
    \/ \E t \in Threads : RaceUpdateFlush(t)
    \/ \E t \in Threads : RaceStageCrc(t)
    \/ \E t \in Threads : RaceScan(t)
    \/ \E t \in Threads : RaceCheck(t)
    \/ \E t \in Threads : RaceIndex(t)
    \/ \E t \in Threads : RaceLength(t)
    \/ \E t \in Threads : RaceCopy(t)
    \/ \E t \in Threads : RaceFlush(t)

SpecRace == Init /\ [][NextRace]_vars

(***************************************************************************)
(* Sanity of the model.                                                    *)
(***************************************************************************)
TypeOK ==
    /\ gpNvm_FileDescriptor \in {"NULL", "open", "closed"}
    /\ layout \in Layouts \cup {"unknown"}
    /\ crashed \in BOOLEAN
    /\ \A i \in AttrIds : gpNvm_MemoryIndexTable[i] \in 0 .. 65535
    /\ \A i \in AttrIds : gpNvm_AttributesCrcTable[i] \in Byte
    /\ \A a \in 0 .. (GPNVM_USER_MEMORY_SIZE - 1) : gpNvm_MemoryCache[a] \in Byte

\* the CRC of the model agrees with the compiled code on sample inputs
CrcSamples ==
    /\ gpNvm_CalculateChecksum(<< >>) = 255
    /\ gpNvm_CalculateChecksum(<<0>>) = 172
    /\ gpNvm_CalculateChecksum(<<255>>) = 0
    /\ gpNvm_CalculateChecksum(<<0, 255, 0>>) = 202
    /\ gpNvm_CalculateChecksum(<<170, 187>>) = 197

(***************************************************************************)
(* What a client observes, and what the specification counts.              *)
(***************************************************************************)
\* the result of gpNvm_GetAttribute(id, &length, value) on image m
GetIn(m, fd, id) ==
    LET r == GetAttribute(m, fd, id, TRUE, FirstWild)
    IN  <<r.res, r.len, r.val>>

\* the result of gpNvm_GetAttribute(id, &length, value) in the current state
Observed(id) == GetIn(M, gpNvm_FileDescriptor, id)

\* and in the state after the step
ObservedNext(id) ==
    GetIn([index |-> gpNvm_MemoryIndexTable', crc |-> gpNvm_AttributesCrcTable',
           cache |-> gpNvm_MemoryCache', slack |-> slack',
           layout |-> IF layout' = "unknown" THEN "slack" ELSE layout',
           oob |-> FALSE, fdw |-> FALSE, wild |-> FALSE],
          gpNvm_FileDescriptor', id)

\* the sum of 1 + stored length over the stored ids lo .. hi-1, in a memory
\* that no access behind the end of the arena has touched
RECURSIVE UsedIn(_, _)
UsedIn(lo, hi) ==
    IF hi <= lo THEN 0
    ELSE IF hi - lo = 1
         THEN IF gpNvm_MemoryIndexTable[lo] # NO_OFFSET
              THEN 1 + gpNvm_MemoryCache[gpNvm_MemoryIndexTable[lo]]
              ELSE 0
    ELSE UsedIn(lo, (lo + hi) \div 2) + UsedIn((lo + hi) \div 2, hi)

UsedBytes == UsedIn(0, GPNVM_MEMORY_INDEX_TABLE_SIZE)

\* the call that ends this step is gpNvm_SetAttribute(id, value) of the client,
\* made on the open store
SetCall ==
    /\ gpNvm_FileDescriptor = "open"
    /\ last'.op = "Set"
    /\ last'.ptr
    /\ last'.id \in Ids

\* the call before this step was a gpNvm_SetAttribute of the client that
\* returned GPNVM_OK on the open store
AfterSet ==
    /\ gpNvm_FileDescriptor = "open"
    /\ last.op = "Set"
    /\ last.res = GPNVM_OK
    /\ last.id \in Ids

(***************************************************************************)
(* The claims.                                                             *)
(***************************************************************************)
\* C1 (round trip): when gpNvm_SetAttribute(id, v) returned GPNVM_OK on the open
\* store, the gpNvm_GetAttribute(id) that immediately follows returns GPNVM_OK
\* with length Len(v) and value v, after any earlier calls.
C1_RoundTrip ==
    [][(AfterSet /\ last'.op = "Get" /\ last'.id = last.id /\ last'.ptr)
        => (/\ last'.res = GPNVM_OK
            /\ last'.len = Len(last.val)
            /\ last'.out = last.val)]_vars

\* C2 (persistence across reopen): in the sequence Set(id, v); Uninit; Init;
\* Get(id) every call returns GPNVM_OK and the Get returns (Len(v), v).
C2_Persistence ==
    [][/\ (reopen.stage = 1 /\ last'.op = "Uninit") => last'.res = GPNVM_OK
       /\ (reopen.stage = 2 /\ last'.op = "Init") => last'.res = GPNVM_OK
       /\ (reopen.stage = 3 /\ last'.op = "Get" /\ last'.id = reopen.id /\ last'.ptr)
            => (/\ last'.res = GPNVM_OK
                /\ last'.len = Len(reopen.val)
                /\ last'.out = reopen.val)]_vars

\* C3 (capacity rule): a gpNvm_SetAttribute on an id that is not stored returns
\* GPNVM_ERROR_MEMORY_FULL exactly when offset + 1 + length exceeds the size of
\* the arena, offset being the sum of 1 + stored length over the stored ids.
C3_CapacityRule ==
    [][(/\ SetCall
        /\ layout = "unknown"
        /\ gpNvm_MemoryIndexTable[last'.id] = NO_OFFSET)
        => (last'.res = GPNVM_ERROR_MEMORY_FULL
              <=> UsedBytes + 1 + Len(last'.val) > GPNVM_USER_MEMORY_SIZE)]_vars

\* C4 (atomic rejection): a gpNvm_SetAttribute that returns
\* GPNVM_ERROR_MEMORY_FULL leaves the three tables in memory and the file as
\* they were before the call.
C4_AtomicRejection ==
    [][(SetCall /\ last'.res = GPNVM_ERROR_MEMORY_FULL)
        => (tables' = tables /\ file' = file)]_vars

\* C5 (fixed-length update): after Set(id, v1) returned GPNVM_OK, a Set(id, v2)
\* with Len(v2) # Len(v1) returns GPNVM_ERROR_INVALID_PARAMETERS, leaves the
\* tables in memory and the file unchanged, and a Get(id) then still returns
\* (Len(v1), v1).
C5_FixedLengthUpdate ==
    [][(/\ AfterSet
        /\ SetCall
        /\ last'.id = last.id
        /\ Len(last'.val) # Len(last.val))
        => (/\ last'.res = GPNVM_ERROR_INVALID_PARAMETERS
            /\ tables' = tables
            /\ file' = file
            /\ ObservedNext(last.id) = <<GPNVM_OK, Len(last.val), last.val>>)]_vars

C7_UnknownId ==
    (/\ last.op = "Get"
     /\ last.ptr
     /\ gpNvm_FileDescriptor = "open"
     /\ runs = 1
     /\ last.id \notin everSet)
    => last.res = GPNVM_ERROR_INVALID_ATTRIBUTE_ID

\* C8 (corruption detection): after a successful Set(id, v), when exactly one bit
\* of the stored value bytes of id has been flipped in the arena, the next
\* gpNvm_GetAttribute(id) returns GPNVM_ERROR_CORRUPTED_ATTRIBUTE and writes
\* neither *pLength nor pValue.
C8_CorruptionDetected ==
    [][(/\ last.op = "Corrupt"
        /\ flips[last.id] = 1
        /\ last.id \in everSet
        /\ last'.op = "Get"
        /\ last'.id = last.id
        /\ last'.ptr)
        => (/\ last'.res = GPNVM_ERROR_CORRUPTED_ATTRIBUTE
            /\ last'.len = NoLength
            /\ last'.out = NoValue)]_vars

\* C8, its case: a Get of an attribute with one flipped bit has returned
\* GPNVM_ERROR_CORRUPTED_ATTRIBUTE.
C8_Witness ==
    /\ last.op = "Get"
    /\ last.id \in everSet
    /\ flips[last.id] = 1
    /\ faults = 1
    /\ last.res = GPNVM_ERROR_CORRUPTED_ATTRIBUTE

\* C9 (isolation between ids): a gpNvm_SetAttribute(id, ...) that returns, with
\* whatever result, leaves the result of gpNvm_GetAttribute(j) as it was for
\* every other id j.
C9_Isolation ==
    [][(SetCall /\ ~crashed')
        => \A j \in Ids \ {last'.id} : ObservedNext(j) = Observed(j)]_vars

\* C10 (close while closed): when the component is closed, before the first
\* gpNvm_Init or after a gpNvm_Uninit that returned GPNVM_OK, gpNvm_Uninit returns
\* GPNVM_ERROR_NOT_INITIALIZED and writes nothing to the file.
C10_CloseWhileClosed ==
    [][(gpNvm_FileDescriptor # "open" /\ last'.op = "Uninit")
        => (last'.res = GPNVM_ERROR_NOT_INITIALIZED /\ file' = file)]_vars

\* C11 (open is required): whenever the component is not open, before the first
\* gpNvm_Init that returned GPNVM_OK or after a gpNvm_Uninit that returned
\* GPNVM_OK, gpNvm_GetAttribute and gpNvm_SetAttribute return
\* GPNVM_ERROR_NOT_INITIALIZED and change neither the tables in memory nor the
\* file.
C11_OpenRequired ==
    [][(gpNvm_FileDescriptor # "open" /\ last'.op \in {"Get", "Set"})
        => (/\ last'.res = GPNVM_ERROR_NOT_INITIALIZED
            /\ tables' = tables
            /\ file' = file)]_vars

\* C12 (close releases the store): the gpNvm_Init that follows a gpNvm_Uninit
\* that returned GPNVM_OK is not rejected with
\* GPNVM_ERROR_ALREADY_INITIALIZED: it opens the file again.
C12_CloseReleases ==
    [][(/\ last.op = "Uninit"
        /\ last.res = GPNVM_OK
        /\ last'.op = "Init")
        => last'.res \in {GPNVM_OK, GPNVM_ERROR_OPENING_FILE}]_vars

\* C13 (open while open): a gpNvm_Init called while the component is open
\* returns GPNVM_ERROR_ALREADY_INITIALIZED and leaves the tables in memory, the
\* file and the handle as they were.
C13_OpenWhileOpen ==
    [][(gpNvm_FileDescriptor = "open" /\ last'.op = "Init")
        => (/\ last'.res = GPNVM_ERROR_ALREADY_INITIALIZED
            /\ tables' = tables
            /\ file' = file
            /\ gpNvm_FileDescriptor' = "open")]_vars

\* C13, its case: gpNvm_Init has been rejected on an open store that holds an
\* attribute of the client.
C13_Witness ==
    /\ last.op = "Init"
    /\ last.res = GPNVM_ERROR_ALREADY_INITIALIZED
    /\ gpNvm_FileDescriptor = "open"
    /\ everSet \cap Ids # {}

\* C14 (Get is side-effect free): gpNvm_GetAttribute, with whatever result,
\* leaves the three tables in memory and the file unchanged; so when
\* gpNvm_GetAttribute(id) has returned GPNVM_ERROR_CORRUPTED_ATTRIBUTE, the
\* gpNvm_GetAttribute(id) that follows it returns the same (for a call that
\* reads the memory of the component only).
C14_GetNoEffect ==
    [][last'.op = "Get"
        => (/\ tables' = tables
            /\ file' = file
            /\ (/\ last.op = "Get"
                /\ last.res = GPNVM_ERROR_CORRUPTED_ATTRIBUTE
                /\ last'.id = last.id
                /\ last'.ptr
                /\ ~GetAttribute(M, gpNvm_FileDescriptor, last.id, TRUE, FirstWild).m.wild)
               => last'.res = GPNVM_ERROR_CORRUPTED_ATTRIBUTE)]_vars

\* C14, its case: an attribute with a flipped bit has been read twice in a row,
\* GPNVM_ERROR_CORRUPTED_ATTRIBUTE both times, and is still in the index table.
C14_Witness ==
    /\ reopen.stage = 5
    /\ last.op = "Get"
    /\ flips[last.id] = 1
    /\ gpNvm_MemoryIndexTable[last.id] # NO_OFFSET

\* the file holds the three tables of the memory: the index table at offset 0,
\* the crc table at offset 512, the arena at offset 768
FileIsMemory ==
    /\ file.size = GPNVM_MEMORY_SIZE
    /\ file.index = gpNvm_MemoryIndexTable
    /\ file.crc = gpNvm_AttributesCrcTable
    /\ file.data = gpNvm_MemoryCache

\* C15 (full flush on mutation): immediately after every gpNvm_SetAttribute that
\* returns GPNVM_OK and has changed a table in memory (insert, or update with
\* other bytes), the file holds exactly the index table at offset 0, the crc table
\* at offset 512 and the arena at offset 768.
C15_FullFlush ==
    [][(SetCall /\ last'.res = GPNVM_OK /\ tables' # tables) => FileIsMemory']_vars

\* C15, its case: a gpNvm_SetAttribute of the client has stored a value of the
\* greatest length on the open store, and the file holds the tables.
C15_Witness ==
    /\ reopen.stage = 1
    /\ last.op = "Set"
    /\ last.id \in Ids
    /\ Len(last.val) = MaxLen
    /\ gpNvm_MemoryIndexTable[last.id] < GPNVM_USER_MEMORY_SIZE
    /\ gpNvm_AttributesCrcTable[last.id] = gpNvm_CalculateChecksum(last.val)
    /\ FileIsMemory

\* the ids that are stored
Stored == {i \in AttrIds : gpNvm_MemoryIndexTable[i] # NO_OFFSET}

\* the arena index behind the record of the stored id i
RecordEnd(i) ==
    gpNvm_MemoryIndexTable[i] + 1 + gpNvm_MemoryCache[gpNvm_MemoryIndexTable[i]]

\* C16 (records stay inside the arena): in every state of the open store, which
\* began with the empty file, every stored id has its length byte and all its
\* value bytes inside the arena, the sum of 1 + length over the stored ids is at
\* most the size of the arena, and no call has accessed the arena behind its end.
C16_RecordsInside ==
    gpNvm_FileDescriptor = "open"
    => (/\ \A i \in Stored : gpNvm_MemoryIndexTable[i] < GPNVM_USER_MEMORY_SIZE
        /\ \A i \in Stored : RecordEnd(i) <= GPNVM_USER_MEMORY_SIZE
        /\ UsedBytes <= GPNVM_USER_MEMORY_SIZE
        /\ layout = "unknown")

\* C17 (dense bump allocation): in every state of the open store the records of
\* the stored ids start inside the arena, are pairwise disjoint, and each starts
\* at offset 0 or where another one ends: they tile the arena from offset 0
\* without gaps, every insert having been placed behind the records stored then.
C17_DenseAllocation ==
    gpNvm_FileDescriptor = "open"
    => (/\ \A i \in Stored : gpNvm_MemoryIndexTable[i] < GPNVM_USER_MEMORY_SIZE
        /\ \A i, j \in Stored :
              i # j => (\/ RecordEnd(i) <= gpNvm_MemoryIndexTable[j]
                        \/ RecordEnd(j) <= gpNvm_MemoryIndexTable[i])
        /\ \A i \in Stored :
              \/ gpNvm_MemoryIndexTable[i] = 0
              \/ \E j \in Stored : RecordEnd(j) = gpNvm_MemoryIndexTable[i])

\* C18 (cache coherence): while the component is open, after gpNvm_Init,
\* gpNvm_GetAttribute or gpNvm_SetAttribute has returned, with whatever result,
\* the file is byte for byte the index table, the crc table and the arena of the
\* memory.
C18_CacheCoherence ==
    (/\ gpNvm_FileDescriptor = "open"
     /\ ~crashed
     /\ last.op \in {"Init", "Get", "Set"})
    => FileIsMemory

C20_OpenLoads ==
    [][(/\ gpNvm_FileDescriptor = "NULL"
        /\ file.size # 0
        /\ last'.op = "Init"
        /\ last'.res = GPNVM_OK)
        => (/\ gpNvm_MemoryIndexTable' = file.index
            /\ gpNvm_AttributesCrcTable' = file.crc
            /\ gpNvm_MemoryCache' = file.data
            /\ file' = file
            /\ gpNvm_FileDescriptor' = "open")]_vars

\* C20, its case: the gpNvm_Init of a later process has returned GPNVM_OK with
\* an attribute of the client loaded from the file.
C20_Witness ==
    /\ last.op = "Init"
    /\ last.res = GPNVM_OK
    /\ runs > 1
    /\ gpNvm_FileDescriptor = "open"
    /\ Stored \cap Ids # {}
    /\ FileIsMemory

\* C21 (in-place update): a gpNvm_SetAttribute(id, v) on a stored id that
\* returns GPNVM_OK, the length being the stored one, changes only the value
\* bytes of that record and the crc table entry of id: the index table, the
\* length byte of the record, every other byte of the arena and every other crc
\* table entry are unchanged, and so is the next free offset.
C21_InPlaceUpdate ==
    [][(/\ SetCall
        /\ gpNvm_MemoryIndexTable[last'.id] # NO_OFFSET
        /\ last'.res = GPNVM_OK)
        => LET off == gpNvm_MemoryIndexTable[last'.id]
           IN  /\ gpNvm_MemoryIndexTable' = gpNvm_MemoryIndexTable
               /\ \A a \in 0 .. (GPNVM_USER_MEMORY_SIZE - 1) :
                     (a <= off \/ a > off + Len(last'.val))
                        => gpNvm_MemoryCache'[a] = gpNvm_MemoryCache[a]
               /\ \A j \in AttrIds \ {last'.id} :
                     gpNvm_AttributesCrcTable'[j] = gpNvm_AttributesCrcTable[j]]_vars

\* C22 (integrity invariant): in every state of the open store, reached from the
\* empty file by gpNvm_Init, gpNvm_GetAttribute, gpNvm_SetAttribute and
\* gpNvm_Uninit alone, the crc table entry of every stored id of the client is
\* the checksum of its stored value, and no gpNvm_GetAttribute has returned
\* GPNVM_ERROR_CORRUPTED_ATTRIBUTE.
C22_Integrity ==
    (gpNvm_FileDescriptor = "open" /\ ~crashed)
    => (/\ last.op = "Get" => last.res # GPNVM_ERROR_CORRUPTED_ATTRIBUTE
        /\ \A i \in Stored \cap Ids : Observed(i)[1] # GPNVM_ERROR_CORRUPTED_ATTRIBUTE)

\* C23 (stored attributes are permanent): once the index table entry of an id
\* holds an offset, no call on the open store changes that entry, neither back
\* to 0xFFFF nor to another offset, and the length byte of the record does not
\* change.
C23_Permanent ==
    [][(gpNvm_FileDescriptor = "open" /\ last'.op \in {"Init", "Uninit", "Get", "Set"})
        => \A i \in Stored :
              /\ gpNvm_MemoryIndexTable'[i] = gpNvm_MemoryIndexTable[i]
              /\ gpNvm_MemoryIndexTable[i] < GPNVM_USER_MEMORY_SIZE
                    => gpNvm_MemoryCache'[gpNvm_MemoryIndexTable[i]]
                          = gpNvm_MemoryCache[gpNvm_MemoryIndexTable[i]]]_vars

\* the sum that the scan of the insert path computes for cpt = lo .. hi-1, as an
\* integer of unbounded width
RECURSIVE WideScan(_, _)
WideScan(lo, hi) ==
    IF hi <= lo THEN 0
    ELSE IF hi - lo = 1
         THEN IF gpNvm_MemoryIndexTable[lo] # NO_OFFSET
              THEN Rd(M, gpNvm_MemoryIndexTable[lo], FirstWild) + 1
              ELSE 0
    ELSE WideScan(lo, (lo + hi) \div 2) + WideScan((lo + hi) \div 2, hi)

\* C25 (offset arithmetic stays in range): on every insert of the client the sum
\* of the scan is below 2^16, so the UInt16 attributeOffset does not wrap, and
\* after the call every offset in the index table is below the size of the
\* arena: no entry that is assigned equals 0xFFFF and the length byte of every
\* stored record is inside the arena.
C25_OffsetsInRange ==
    [][(SetCall /\ gpNvm_MemoryIndexTable[last'.id] = NO_OFFSET)
        => (/\ WideScan(0, GPNVM_MEMORY_INDEX_TABLE_SIZE) < 65536
            /\ \A i \in AttrIds :
                  gpNvm_MemoryIndexTable'[i] # NO_OFFSET
                     => gpNvm_MemoryIndexTable'[i] < GPNVM_USER_MEMORY_SIZE)]_vars

\* the two calls have returned and were made for the same id
BothDone(id) == \A t \in Threads : Th(t).pc = "done" /\ Th(t).id = id

\* what gpNvm_GetAttribute(id) returns is what one of the two calls wrote, and
\* the file holds the tables
OneCallsRecord(id) ==
    /\ \E t \in Threads : Observed(id) = <<GPNVM_OK, Len(Th(t).val), Th(t).val>>
    /\ FileIsMemory

\* C24 (concurrency): two gpNvm_SetAttribute calls on the same id of the open,
\* empty store leave a record that is not the record of one of them, or a file
\* that differs from the tables, only if their steps interleaved: when the
\* second call starts after the first has returned, a later
\* gpNvm_GetAttribute(id) returns GPNVM_OK with the value of one of the two
\* calls and the file holds the tables.  The state that the interleaving
\* reaches is C24_Witness.
C24_TornOnlyByInterleaving ==
    \A id \in Ids :
        (BothDone(id) /\ gpNvm_FileDescriptor = "open" /\ ~calls.overlap)
            => OneCallsRecord(id)

\* both calls went through the insert path for the same id with their steps
\* interleaved, both returned GPNVM_OK, and gpNvm_GetAttribute(id) fails with
\* GPNVM_ERROR_CORRUPTED_ATTRIBUTE
C24_Witness ==
    \E id \in Ids :
        /\ BothDone(id)
        /\ calls.overlap
        /\ \A t \in Threads : Th(t).res = GPNVM_OK /\ Th(t).insert
        /\ Observed(id)[1] = GPNVM_ERROR_CORRUPTED_ATTRIBUTE
====
